---- MODULE Spec2Model ----
(***************************************************************************)
(* Model of orca's OAuth authorization (src/src/net/auth.rs): OAuth::new   *)
(* for the Script and InstalledApp application types, the hyper service    *)
(* pair NewInstalledAppService / InstalledAppService that receives the     *)
(* redirect, and the one-shot channel that hands the code to the caller.   *)
(*                                                                         *)
(* Strings the code looks inside are sequences of characters, a character  *)
(* being a one-character TLA+ string.                                      *)
(***************************************************************************)
EXTENDS Integers, Sequences, FiniteSets, TLC

\* ---------------------------------------------------------------- bounds
\* Connections the listener may accept during one attempt.
MaxConns == 2
\* HTTP requests serviced during one attempt (over all connections).
MaxRequests == 2
\* Calls of OAuth::refresh on the session returned.
MaxRefresh == 1

\* ------------------------------------------------------------ Option<T>
None == [some |-> FALSE]
Some(x) == [some |-> TRUE, v |-> x]

\* -------------------------------------------------- serde_json::Value
\* Numbers are kept as their decimal digits, most significant first and
\* without leading zeros, so that values of 64 bits keep their width.
Digit(d) == CASE d = 0 -> "0" [] d = 1 -> "1" [] d = 2 -> "2" [] d = 3 -> "3"
              [] d = 4 -> "4" [] d = 5 -> "5" [] d = 6 -> "6" [] d = 7 -> "7"
              [] d = 8 -> "8" [] d = 9 -> "9"

DigitVal(c) == CASE c = "0" -> 0 [] c = "1" -> 1 [] c = "2" -> 2 [] c = "3" -> 3
                 [] c = "4" -> 4 [] c = "5" -> 5 [] c = "6" -> 6 [] c = "7" -> 7
                 [] c = "8" -> 8 [] c = "9" -> 9 [] OTHER -> -1

RECURSIVE Decimal(_)
\* The decimal digits of a natural number.
Decimal(n) == IF n < 10 THEN <<Digit(n)>> ELSE Decimal(n \div 10) \o <<Digit(n % 10)>>

\* u64::MAX and i64::MAX.
U64Max == <<"1", "8", "4", "4", "6", "7", "4", "4", "0", "7", "3", "7", "0", "9", "5", "5", "1", "6", "1", "5">>
I64Max == <<"9", "2", "2", "3", "3", "7", "2", "0", "3", "6", "8", "5", "4", "7", "7", "5", "8", "0", "7">>

RECURSIVE Normalize(_)
\* The digits without leading zeros.
Normalize(ds) == IF Len(ds) > 1 /\ Head(ds) = "0" THEN Normalize(Tail(ds)) ELSE ds

RECURSIVE LexLeq(_, _)
\* a <= b for digit sequences of one length.
LexLeq(a, b) ==
    IF a = <<>> THEN TRUE
    ELSE IF DigitVal(Head(a)) # DigitVal(Head(b)) THEN DigitVal(Head(a)) < DigitVal(Head(b))
    ELSE LexLeq(Tail(a), Tail(b))

\* a <= b for numbers given by their digits.
Leq(a, b) == Len(a) < Len(b) \/ (Len(a) = Len(b) /\ LexLeq(a, b))

Front(ds) == SubSeq(ds, 1, Len(ds) - 1)

RECURSIVE AddDigits(_, _, _)
\* The digits of a + b + carry.
AddDigits(a, b, carry) ==
    IF a = <<>> /\ b = <<>> THEN (IF carry = 0 THEN <<>> ELSE <<Digit(carry)>>)
    ELSE LET da == IF a = <<>> THEN 0 ELSE DigitVal(a[Len(a)])
             db == IF b = <<>> THEN 0 ELSE DigitVal(b[Len(b)])
             sum == da + db + carry
         IN  AddDigits(IF a = <<>> THEN a ELSE Front(a),
                       IF b = <<>> THEN b ELSE Front(b),
                       sum \div 10) \o <<Digit(sum % 10)>>

\* The values `response.get(..)` can return: a JSON string or a JSON integer
\* (a sign and digits; serde_json holds integers from i64::MIN to u64::MAX).
JStr(s) == [t |-> "string", s |-> s]
JNum(n) == [t |-> "number", neg |-> n < 0, digits |-> Decimal(IF n < 0 THEN -n ELSE n)]
JBig(ds) == [t |-> "number", neg |-> FALSE, digits |-> ds]

\* Value::as_str: the string's content for a JSON string, None otherwise.
as_str(v) == IF v.t = "string" THEN Some(v.s) ELSE None

\* The characters of ASCII by their byte, from 0 to 127.  A character is a
\* one-character string; one that cannot be written so is named by its code
\* point ("U+0000"), as is every character beyond ASCII ("U+00E9").
AsciiChars ==
    << "U+0000", "U+0001", "U+0002", "U+0003", "U+0004", "U+0005", "U+0006", "U+0007",
       "U+0008", "\t", "\n", "U+000B", "U+000C", "\r", "U+000E", "U+000F",
       "U+0010", "U+0011", "U+0012", "U+0013", "U+0014", "U+0015", "U+0016", "U+0017",
       "U+0018", "U+0019", "U+001A", "U+001B", "U+001C", "U+001D", "U+001E", "U+001F",
       " ", "!", "\"", "#", "$", "%", "&", "'",
       "(", ")", "*", "+", ",", "-", ".", "/",
       "0", "1", "2", "3", "4", "5", "6", "7",
       "8", "9", ":", ";", "<", "=", ">", "?",
       "@", "A", "B", "C", "D", "E", "F", "G",
       "H", "I", "J", "K", "L", "M", "N", "O",
       "P", "Q", "R", "S", "T", "U", "V", "W",
       "X", "Y", "Z", "[", "\\", "]", "^", "_",
       "U+0060", "a", "b", "c", "d", "e", "f", "g",
       "h", "i", "j", "k", "l", "m", "n", "o",
       "p", "q", "r", "s", "t", "u", "v", "w",
       "x", "y", "z", "{", "|", "}", "~", "U+007F" >>

Chr(b) == AsciiChars[b + 1]
Bytes == [c \in {AsciiChars[i] : i \in 1..Len(AsciiChars)} |->
             (CHOOSE i \in 1..Len(AsciiChars) : AsciiChars[i] = c) - 1]
Ord(c) == Bytes[c]

\* A hexadecimal digit as JSON text writes it.
LowerHexDigit(d) == IF d < 10 THEN Digit(d) ELSE <<"a", "b", "c", "d", "e", "f">>[d - 9]

\* One character of a string as JSON text writes it: the quote and the
\* backslash get a backslash before them, and every character below U+0020 is
\* escaped, with a letter for backspace, form feed, line feed, return and tab
\* and with \u00XX for the others.
EscapeChar(c) ==
    CASE c = "\"" -> <<"\\", "\"">>
      [] c = "\\" -> <<"\\", "\\">>
      [] c = "\n" -> <<"\\", "n">>
      [] c = "\t" -> <<"\\", "t">>
      [] c = "\r" -> <<"\\", "r">>
      [] c = Chr(8) -> <<"\\", "b">>
      [] c = Chr(12) -> <<"\\", "f">>
      [] OTHER -> IF c \in DOMAIN Bytes /\ Ord(c) < 32
                  THEN <<"\\", "u", "0", "0",
                         LowerHexDigit(Ord(c) \div 16), LowerHexDigit(Ord(c) % 16)>>
                  ELSE <<c>>

RECURSIVE Escape(_)
Escape(s) == IF s = <<>> THEN <<>> ELSE EscapeChar(Head(s)) \o Escape(Tail(s))

\* Value::to_string (Display): the JSON text of the value.  A string is
\* written escaped inside double quotes, a number as its digits with its sign.
to_string(v) ==
    IF v.t = "string" THEN <<"\"">> \o Escape(v.s) \o <<"\"">>
    ELSE IF v.neg THEN <<"-">> \o v.digits
    ELSE v.digits

\* str::parse::<u64>: an optional "+" and at least one digit, the value no
\* larger than u64::MAX; None otherwise.  The value is given by its digits.
parse_u64(s) ==
    LET body == IF s # <<>> /\ Head(s) = "+" THEN Tail(s) ELSE s IN
    IF body = <<>> \/ \E i \in 1..Len(body) : DigitVal(body[i]) < 0 THEN None
    ELSE IF ~Leq(Normalize(body), U64Max) THEN None
    ELSE Some(Normalize(body))

\* ------------------------------------------- url::form_urlencoded::parse
RECURSIVE SplitOn(_, _)
\* The pieces of s between occurrences of sep (as str::split does).
SplitOn(s, sep) ==
    IF \A i \in 1..Len(s) : s[i] # sep THEN <<s>>
    ELSE LET i == CHOOSE k \in 1..Len(s) :
                     s[k] = sep /\ \A j \in 1..(k - 1) : s[j] # sep
         IN  <<SubSeq(s, 1, i - 1)>> \o SplitOn(SubSeq(s, i + 1, Len(s)), sep)

HexVal(c) ==
    CASE DigitVal(c) >= 0 -> DigitVal(c)
      [] c \in {"a", "A"} -> 10 [] c \in {"b", "B"} -> 11 [] c \in {"c", "C"} -> 12
      [] c \in {"d", "D"} -> 13 [] c \in {"e", "E"} -> 14 [] c \in {"f", "F"} -> 15
      [] OTHER -> -1

HexDigit(d) == IF d < 10 THEN Digit(d) ELSE <<"A", "B", "C", "D", "E", "F">>[d - 9]

RECURSIVE Hex(_)
\* The hexadecimal digits of a natural number, as one string.
Hex(n) == IF n < 16 THEN HexDigit(n) ELSE Hex(n \div 16) \o HexDigit(n % 16)

\* The character of a code point beyond ASCII, at least four digits long.
CodePoint(n) ==
    "U+" \o (IF n < 16 THEN "000" ELSE IF n < 256 THEN "00" ELSE IF n < 4096 THEN "0" ELSE "")
         \o Hex(n)

\* What takes the place of bytes that are not UTF-8.
Replacement == CodePoint(65533)

\* replace_plus: "+" becomes a space.
replace_plus(s) == [i \in 1..Len(s) |-> IF s[i] = "+" THEN " " ELSE s[i]]

RECURSIVE percent_decode(_)
\* percent_decode: the bytes of the text, a "%" with two hexadecimal digits
\* after it giving the byte they write and every other character its own.
percent_decode(s) ==
    IF \A i \in 1..Len(s) : s[i] # "%" THEN [i \in 1..Len(s) |-> Ord(s[i])]
    ELSE IF Head(s) = "%" /\ Len(s) >= 3 /\ HexVal(s[2]) >= 0 /\ HexVal(s[3]) >= 0
    THEN <<HexVal(s[2]) * 16 + HexVal(s[3])>> \o percent_decode(SubSeq(s, 4, Len(s)))
    ELSE <<Ord(Head(s))>> \o percent_decode(Tail(s))

RECURSIVE decode_utf8_lossy(_)
\* The characters of a byte sequence read as UTF-8; each longest run of bytes
\* that begins a character and cannot be completed becomes one replacement
\* character.
decode_utf8_lossy(bs) ==
    IF \A i \in 1..Len(bs) : bs[i] < 128 THEN [i \in 1..Len(bs) |-> Chr(bs[i])]
    ELSE LET b1 == bs[1]
             need == IF b1 < 128 THEN 1
                     ELSE IF b1 \in 194..223 THEN 2
                     ELSE IF b1 \in 224..239 THEN 3
                     ELSE IF b1 \in 240..244 THEN 4
                     ELSE 0
             lo2 == IF b1 = 224 THEN 160 ELSE IF b1 = 240 THEN 144 ELSE 128
             hi2 == IF b1 = 237 THEN 159 ELSE IF b1 = 244 THEN 143 ELSE 191
             ok2 == Len(bs) >= 2 /\ bs[2] \in lo2..hi2
             ok3 == Len(bs) >= 3 /\ bs[3] \in 128..191
             ok4 == Len(bs) >= 4 /\ bs[4] \in 128..191
             from(i) == decode_utf8_lossy(SubSeq(bs, i, Len(bs)))
         IN  IF need = 1 THEN <<Chr(b1)>> \o from(2)
             ELSE IF need = 0 \/ ~ok2 THEN <<Replacement>> \o from(2)
             ELSE IF need = 2
             THEN <<CodePoint((b1 - 192) * 64 + (bs[2] - 128))>> \o from(3)
             ELSE IF ~ok3 THEN <<Replacement>> \o from(3)
             ELSE IF need = 3
             THEN <<CodePoint((b1 - 224) * 4096 + (bs[2] - 128) * 64 + (bs[3] - 128))>>
                  \o from(4)
             ELSE IF ~ok4 THEN <<Replacement>> \o from(4)
             ELSE <<CodePoint((b1 - 240) * 262144 + (bs[2] - 128) * 4096
                              + (bs[3] - 128) * 64 + (bs[4] - 128))>> \o from(5)

\* Decoding of one name or value: "+" becomes a space, then the percent
\* escapes are replaced by their bytes and the bytes read as UTF-8.
Decode(s) == decode_utf8_lossy(percent_decode(replace_plus(s)))

\* One "name=value" piece, split at its first "="; the value is empty when
\* there is no "=".
ParsePair(seg) ==
    IF \A i \in 1..Len(seg) : seg[i] # "=" THEN <<Decode(seg), <<>>>>
    ELSE LET i == CHOOSE k \in 1..Len(seg) :
                     seg[k] = "=" /\ \A j \in 1..(k - 1) : seg[j] # "="
         IN  <<Decode(SubSeq(seg, 1, i - 1)), Decode(SubSeq(seg, i + 1, Len(seg)))>>

\* form_urlencoded::parse: the pairs of the query in order, empty pieces
\* skipped.
form_urlencoded_parse(q) ==
    LET segs == SplitOn(q, "&")
        keep == SelectSeq(segs, LAMBDA x : x # <<>>)
    IN  [i \in 1..Len(keep) |-> ParsePair(keep[i])]

\* HashMap::contains_key on the collected pairs.
contains_key(params, k) == \E i \in 1..Len(params) : params[i][1] = k

\* HashMap::get on the collected pairs: collecting inserts in order, so the
\* last pair of a repeated name is the one kept.
get(params, k) ==
    IF contains_key(params, k)
    THEN LET i == CHOOSE m \in 1..Len(params) :
                     params[m][1] = k /\ \A j \in (m + 1)..Len(params) : params[j][1] # k
         IN  Some(params[i][2])
    ELSE None

\* --------------------------------------------------------------- inputs
\* The credential sets handed to OAuth::new (OauthApp).  A Response is its
\* status and body.
Response(body) == [status |-> 200, body |-> body]

SuccessPage == Response("custom success page")
ErrorPage == Response("custom error page")

ScriptApps ==
    { [kind |-> "Script", id |-> "id1", secret |-> "secret1",
       username |-> "user1", password |-> "pass1"],
      [kind |-> "Script", id |-> "id2", secret |-> "secret2",
       username |-> "user2", password |-> "pass2"] }

InstalledApps ==
    { [kind |-> "InstalledApp", id |-> <<"a", "p", "p", "1">>,
       redirect |-> << "h", "t", "t", "p", ":", "/", "/", "1", "2", "7", ".", "0", ".", "0", ".", "1",
                      ":", "7", "8", "7", "8" >>,
       success_response |-> p[1], error_response |-> p[2]] :
         p \in { <<None, None>>, <<Some(SuccessPage), Some(ErrorPage)>> } }

OauthApps == ScriptApps \cup InstalledApps

\* The number of characters taken for the state string (line 208).
StateLen == 16

\* The first n characters of a stream that yields c every time.
take(c, n) == [i \in 1..n |-> c]

\* Values rand::thread_rng().gen_ascii_chars().take(16).collect() may produce
\* for the state string.
StateA == take("a", StateLen)
StateB == take("b", StateLen)
StateStrings == { StateA, StateB }

\* Codes a redirect may carry.
Codes == { <<"X">>, <<"Y">> }

\* A query "name=value&name=value..." from a sequence of pairs.
RECURSIVE Query(_)
Query(pairs) ==
    IF pairs = <<>> THEN <<>>
    ELSE LET p == Head(pairs)
             one == p[1] \o <<"=">> \o p[2]
         IN  IF Len(pairs) = 1 THEN one ELSE one \o <<"&">> \o Query(Tail(pairs))

ErrorPairs == { <<>>, << <<<<"e", "r", "r", "o", "r">>, <<"a", "c", "c", "e", "s", "s", "_", "d", "e", "n", "i", "e", "d">>>> >> }
StatePairs == { <<>> } \cup { << <<<<"s", "t", "a", "t", "e">>, s>> >> : s \in StateStrings }
CodePairs == { <<>> } \cup { << <<<<"c", "o", "d", "e">>, c>> >> : c \in Codes }

\* Request URIs the listener may be sent: "/?" followed by any choice of an
\* error, a state and a code parameter, and some irregular ones.
RegularUris ==
    { <<"/", "?">> \o Query(e \o s \o c) :
        e \in ErrorPairs, s \in StatePairs, c \in CodePairs }

IrregularUris ==
    { <<"/">>,
      \* a repeated state: the later value is the one kept
      <<"/", "?", "s", "t", "a", "t", "e", "=">> \o StateB \o <<"&", "s", "t", "a", "t", "e", "=">> \o StateA
          \o <<"&", "c", "o", "d", "e", "=", "X">>,
      \* a state followed by "+", which decodes to a space
      <<"/", "?", "s", "t", "a", "t", "e", "=">> \o StateA \o <<"+", "&", "c", "o", "d", "e", "=", "X">>,
      \* a state one character short
      <<"/", "?", "s", "t", "a", "t", "e", "=">> \o take("a", StateLen - 1) \o <<"&", "c", "o", "d", "e", "=", "X">>,
      \* a percent escape in the state: it decodes to the attempt's state
      <<"/", "?", "s", "t", "a", "t", "e", "=", "%", "6", "1">> \o take("a", StateLen - 1)
          \o <<"&", "c", "o", "d", "e", "=", "X">>,
      \* percent escapes in a name and in the code, and a "%" that begins none
      <<"/", "?", "%", "7", "3", "t", "a", "t", "e", "=">> \o StateA
          \o <<"&", "c", "o", "d", "e", "=", "%", "5", "9", "&", "%", "=", "%", "F", "F">>,
      \* a path longer than "/": the first two characters are dropped all the same
      <<"/", "c", "b", "?", "s", "t", "a", "t", "e", "=">> \o StateA \o <<"&", "c", "o", "d", "e", "=", "X">> }

Uris == RegularUris \cup IrregularUris

\* Instants Instant::now() may return when the session is built.
MaxInstant == 1
Instants == 0..MaxInstant

\* Instant + Duration (line 305), both in whole seconds and the result given
\* by its digits: None where the sum passes i64::MAX seconds, which is where
\* `+` panics.
instant_add(now, secs) ==
    LET sum == AddDigits(Decimal(now), secs, 0)
    IN  IF Leq(sum, I64Max) THEN Some(sum) ELSE None

\* JSON objects the token endpoint may answer with.  With well-formed values:
\* all four fields, all but one, access_token alone, none.  All four with one
\* other value: an
\* expires_in of zero, given as a string, negative, or of i64::MAX seconds; an
\* access_token that is the empty string or a number; a refresh_token with a
\* quote, a backslash and two control characters in it.  Also access_token alone with those values.
Field == { "expires_in", "access_token", "refresh_token", "scope" }

GoodValue(k) ==
    CASE k = "expires_in" -> JNum(12)
      [] k = "access_token" -> JStr(<<"T">>)
      [] k = "refresh_token" -> JStr(<<"R">>)
      [] k = "scope" -> JStr(<<"r", "e", "a", "d">>)

TokenResponses ==
    { [k \in ks |-> GoodValue(k)] :
        ks \in {Field, {}, {"access_token"}} \cup {Field \ {k} : k \in Field} }
    \cup { [k \in Field |-> IF k = "expires_in" THEN e ELSE GoodValue(k)] :
             e \in { JNum(0), JStr(<<"1", "2">>), JNum(-1), JBig(I64Max) } }
    \cup { [k \in Field |-> IF k = "access_token" THEN a ELSE GoodValue(k)] :
             a \in { JStr(<<>>), JNum(5) } }
    \cup { [k \in {"access_token"} |-> a] : a \in { JStr(<<>>), JNum(5) } }
    \cup { [k \in Field |-> IF k = "refresh_token" THEN JStr(<<"a", "\"", "\\", Chr(8), Chr(27), "b">>)
                            ELSE GoodValue(k)] }

\* Connection::run_request: an error, or the parsed JSON of the response.
RunRequestResults ==
    { [ok |-> FALSE] } \cup { [ok |-> TRUE, json |-> r] : r \in TokenResponses }

\* Value::get on a JSON object.
json_get(r, k) == IF k \in DOMAIN r THEN Some(r[k]) ELSE None

\* ------------------------------------------------------ results of a call
Ok(session) == [kind |-> "Ok", session |-> session]
Err(e) == [kind |-> "Err", err |-> e]
\* An unwrap or index that fails unwinds out of OAuth::new: no value is returned.
Panic == [kind |-> "Panic"]
NoResult == [kind |-> "None"]

\* ------------------------------------------------------------ RefCellPop
\* A pop that hands out the value and leaves it in the cell.
pop_keep(cell) == <<cell, cell>>

\* pop on a RefCell<Option<T>>: <<the value taken, the cell afterwards>>.
pop(cell) == IF cell.some THEN <<cell, None>> ELSE <<None, cell>>

\* clone_response: two responses with the status and body of the one consumed.
clone_response(resp) ==
    << [status |-> resp.status, body |-> resp.body],
       [status |-> resp.status, body |-> resp.body] >>

\* clone_ref_response: takes the response out of the cell, duplicates it and
\* puts one copy back: <<the other copy, the cell afterwards>>.
clone_ref_response(cell) ==
    LET both == clone_response(pop(cell)[1].v)
    IN  <<both[1], Some(both[2])>>

\* ------------------------------------------------ NewInstalledAppService
\* A new_service that gives every service a sender and keeps its own.
new_service_shares_sender(factory) ==
    << Some([code_sender |-> factory.sender,
             state |-> factory.state,
             s_resp |-> IF factory.s_resp.some
                        THEN Some(clone_ref_response(factory.s_resp)[1])
                        ELSE None,
             e_resp |-> IF factory.e_resp.some
                        THEN Some(clone_ref_response(factory.e_resp)[1])
                        ELSE None]),
       factory.sender >>

\* new_service: <<Some(service) for Ok and None for Err, the factory's sender
\* cell afterwards>>.
\* The sender is moved into the first service made; afterwards it fails.
new_service(factory) ==
    LET popped == pop(factory.sender) IN
    IF popped[1].some
    THEN << Some([code_sender |-> Some(popped[1].v),
                state |-> factory.state,
                s_resp |-> IF factory.s_resp.some
                           THEN Some(clone_ref_response(factory.s_resp)[1])
                           ELSE None,
                e_resp |-> IF factory.e_resp.some
                           THEN Some(clone_ref_response(factory.e_resp)[1])
                           ELSE None]),
            popped[2] >>
    ELSE << None, popped[2] >>

\* --------------------------------------------------- InstalledAppService
\* What one invocation of call does: whether it panics, the response it
\* returns, the code it sends on the one-shot channel (if any), the branch of
\* the validation it took, and the service's sender cell afterwards.
CallResult(panic, resp, sent, branch, cell) ==
    [panic |-> panic, resp |-> resp, sent |-> sent, branch |-> branch, code_sender |-> cell]

\* The validation without its test for an `error` parameter.
validate_no_error_check(svc, params, s_resp, e_resp) ==
    LET state == get(params, <<"s", "t", "a", "t", "e">>)
        code == get(params, <<"c", "o", "d", "e">>)
        popped == pop(svc.code_sender)
    IN  IF ~state.some
        THEN CallResult(FALSE, Some(Response("Authorization failed")), None,
                        "missing_state", svc.code_sender)
        ELSE IF state.v # svc.state
        THEN CallResult(FALSE, Some(e_resp), None, "state_mismatch", svc.code_sender)
        ELSE IF ~code.some
        THEN CallResult(TRUE, None, None, "panic", svc.code_sender)
        ELSE CallResult(FALSE, Some(s_resp),
                        IF popped[1].some THEN code ELSE None,
                        "succeeded", popped[2])

\* The validation without its comparison of the state.
validate_no_state_check(svc, params, s_resp, e_resp) ==
    LET state == get(params, <<"s", "t", "a", "t", "e">>)
        code == get(params, <<"c", "o", "d", "e">>)
        popped == pop(svc.code_sender)
    IN  IF contains_key(params, <<"e", "r", "r", "o", "r">>)
        THEN CallResult(FALSE, Some(e_resp), None, "remote_error", svc.code_sender)
        ELSE IF ~state.some
        THEN CallResult(FALSE, Some(Response("Authorization failed")), None,
                        "missing_state", svc.code_sender)
        ELSE IF ~code.some
        THEN CallResult(TRUE, None, None, "panic", svc.code_sender)
        ELSE CallResult(FALSE, Some(s_resp),
                        IF popped[1].some THEN code ELSE None,
                        "succeeded", popped[2])

\* The validation of lines 406-430 on the collected parameters, with the two
\* responses prepared beforehand.
validate(svc, params, s_resp, e_resp) ==
    LET state == get(params, <<"s", "t", "a", "t", "e">>)
        code == get(params, <<"c", "o", "d", "e">>)
        popped == pop(svc.code_sender)
    IN  IF contains_key(params, <<"e", "r", "r", "o", "r">>)
        THEN CallResult(FALSE, Some(e_resp), None, "remote_error", svc.code_sender)
        ELSE IF ~state.some
        THEN CallResult(FALSE, Some(Response("Authorization failed")), None,
                        "missing_state", svc.code_sender)
        ELSE IF state.v # svc.state
        THEN CallResult(FALSE, Some(e_resp), None, "state_mismatch", svc.code_sender)
        ELSE IF ~code.some
        THEN CallResult(TRUE, None, None, "panic", svc.code_sender)
        ELSE CallResult(FALSE, Some(s_resp),
                        IF popped[1].some THEN code ELSE None,
                        "succeeded", popped[2])

\* call (lines 384-431): the query is the URI without its first two
\* characters (the slice panics on a shorter URI); both responses are
\* prepared; then the parameters are validated.
call(svc, uri) ==
    IF Len(uri) < 2
    THEN CallResult(TRUE, None, None, "panic", svc.code_sender)
    ELSE LET query_str == SubSeq(uri, 3, Len(uri))
             params == form_urlencoded_parse(query_str)
             s_resp == IF svc.s_resp.some THEN clone_ref_response(svc.s_resp)[1]
                       ELSE Response("Authorization successful!")
             e_resp == IF svc.e_resp.some THEN clone_ref_response(svc.e_resp)[1]
                       ELSE Response("Authorization successful!")
         IN  validate(svc, params, s_resp, e_resp)

\* ------------------------------------------------------------ OAuth::new
\* The token request of the Script arm.
ScriptTokenRequest(app) ==
    [url |-> "https://ssl.reddit.com/api/v1/access_token/.json",
     grant_type |-> "password", username |-> app.username, password |-> app.password,
     basic_username |-> app.id, basic_password |-> Some(app.secret)]

\* The Script arm indexing the response instead of testing for the field.
NewScript_unchecked(app, rr) ==
    IF ~rr.ok THEN Err("RequestError")
    ELSE LET token == json_get(rr.json, "access_token") IN
         IF token.some /\ as_str(token.v).some
         THEN Ok([kind |-> "Script", id |-> app.id, secret |-> app.secret,
                  username |-> app.username, password |-> app.password,
                  token |-> as_str(token.v).v])
         ELSE Panic

\* The Script arm after the request: the value OAuth::new ends with.
NewScript(app, rr) ==
    IF ~rr.ok THEN Err("RequestError")
    ELSE LET token == json_get(rr.json, "access_token") IN
         IF token.some
         THEN IF as_str(token.v).some
              THEN Ok([kind |-> "Script", id |-> app.id, secret |-> app.secret,
                       username |-> app.username, password |-> app.password,
                       token |-> as_str(token.v).v])
              ELSE Panic
         ELSE Err("AuthError")

\* The token request of the InstalledApp arm.
CodeTokenRequest(app, code) ==
    [url |-> "https://ssl.reddit.com/api/v1/access_token/.json",
     grant_type |-> "authorization_code", code |-> code, redirect_uri |-> app.redirect,
     basic_username |-> app.id, basic_password |-> None]

\* The InstalledApp arm without the test for `scope`.
NewInstalledApp_no_scope(app, rr, now) ==
    IF ~rr.ok THEN Err("RequestError")
    ELSE LET expires_in == json_get(rr.json, "expires_in")
             token == json_get(rr.json, "access_token")
             refresh_token == json_get(rr.json, "refresh_token")
         IN  IF expires_in.some /\ token.some /\ refresh_token.some
             THEN IF ~as_str(token.v).some THEN Panic
                  ELSE IF ~parse_u64(to_string(expires_in.v)).some THEN Panic
                  ELSE IF ~instant_add(now, parse_u64(to_string(expires_in.v)).v).some
                  THEN Panic
                  ELSE Ok([kind |-> "InstalledApp", id |-> app.id,
                           redirect |-> app.redirect,
                           token |-> as_str(token.v).v,
                           refresh_token |-> Some(to_string(refresh_token.v)),
                           expire_instant |->
                               instant_add(now, parse_u64(to_string(expires_in.v)).v)])
             ELSE Err("AuthError")

\* The InstalledApp arm keeping no refresh token.
NewInstalledApp_no_refresh(app, rr, now) ==
    IF ~rr.ok THEN Err("RequestError")
    ELSE LET expires_in == json_get(rr.json, "expires_in")
             token == json_get(rr.json, "access_token")
             refresh_token == json_get(rr.json, "refresh_token")
             scope == json_get(rr.json, "scope")
         IN  IF expires_in.some /\ token.some /\ refresh_token.some /\ scope.some
             THEN IF ~as_str(token.v).some THEN Panic
                  ELSE IF ~parse_u64(to_string(expires_in.v)).some THEN Panic
                  ELSE IF ~instant_add(now, parse_u64(to_string(expires_in.v)).v).some
                  THEN Panic
                  ELSE Ok([kind |-> "InstalledApp", id |-> app.id,
                           redirect |-> app.redirect,
                           token |-> as_str(token.v).v,
                           refresh_token |-> None,
                           expire_instant |->
                               instant_add(now, parse_u64(to_string(expires_in.v)).v)])
             ELSE Err("AuthError")

\* The InstalledApp arm after the token request, with `now` the value of
\* Instant::now().
NewInstalledApp(app, rr, now) ==
    IF ~rr.ok THEN Err("RequestError")
    ELSE LET expires_in == json_get(rr.json, "expires_in")
             token == json_get(rr.json, "access_token")
             refresh_token == json_get(rr.json, "refresh_token")
             scope == json_get(rr.json, "scope")
         IN  IF expires_in.some /\ token.some /\ refresh_token.some /\ scope.some
             THEN IF ~as_str(token.v).some THEN Panic
                  ELSE IF ~parse_u64(to_string(expires_in.v)).some THEN Panic
                  ELSE IF ~instant_add(now, parse_u64(to_string(expires_in.v)).v).some
                  THEN Panic
                  ELSE Ok([kind |-> "InstalledApp", id |-> app.id,
                           redirect |-> app.redirect,
                           token |-> as_str(token.v).v,
                           refresh_token |-> Some(to_string(refresh_token.v)),
                           expire_instant |->
                               instant_add(now, parse_u64(to_string(expires_in.v)).v)])
             ELSE Err("AuthError")

\* --------------------------------------------------------- OAuth::refresh
\* refresh (lines 148-150) is `unimplemented!()`: every call panics, for
\* either kind of session, and the session is left as it was.
refresh(session) == [outcome |-> "Panic", session |-> session]

\* ================================================================= state
VARIABLES
    pc,             \* where the caller of OAuth::new is
    app,            \* the OauthApp passed in
    port_busy,      \* whether another socket holds 127.0.0.1:7878
    result,         \* what OAuth::new ended with
    state,          \* the random state string of the attempt
    browser,        \* the thread spawned to open the browser
    listener,       \* the server's listening socket
    factory,        \* the NewInstalledAppService given to the server
    conns,          \* the connections accepted, in order, each with its service
    chan,           \* the one-shot channel from the service to the caller
    sends,          \* every value sent on that channel, in order
    code,           \* the caller's `code` cell
    token_requests, \* the requests made through Connection::run_request
    token_response, \* what the last of them returned, and the instant read after
    served,         \* how many requests `call` has been invoked for
    last,           \* the last of them: request, branch, response, code sent
    valid_codes,    \* the codes of the requests serviced without `error` and with
                    \* the attempt's state
    mismatch_seen,  \* whether a request serviced without `error` carried another state
    refresh_log     \* the calls of refresh on the session returned: how many, and
                    \* how the last one ended

vars == << pc, app, port_busy, result, state, browser, listener, factory, conns, chan,
           sends, code, token_requests, token_response, served, last, valid_codes,
           mismatch_seen, refresh_log >>

server_vars == << listener, factory, conns, chan, sends, code >>
history_vars == << served, last, valid_codes, mismatch_seen, refresh_log >>

NoChannel == [st |-> "none"]
NoFactory == [sender |-> None]

\* The permissions asked for (lines 212-214).
scopes ==
    << "i", "d", "e", "n", "t", "i", "t", "y", ",", "e", "d", "i", "t", ",", "f", "l",
       "a", "i", "r", ",", "h", "i", "s", "t", "o", "r", "y", ",", "m", "o", "d", "c",
       "o", "n", "f", "i", "g", ",", "m", "o", "d", "f", "l", "a", "i", "r", ",", "m",
       "o", "d", "l", "o", "g", ",", "m", "o", "d", "p", "o", "s", "t", "s", ",", "m",
       "o", "d", "w", "i", "k", "i", ",", "m", "y", "s", "u", "b", "r", "e", "d", "d",
       "i", "t", "s", ",", "p", "r", "i", "v", "a", "t", "e", "m", "e", "s", "s", "a",
       "g", "e", "s", ",", "r", "e", "a", "d", ",", "r", "e", "p", "o", "r", "t", ",",
       "s", "a", "v", "e", ",", "s", "u", "b", "m", "i", "t", ",", "s", "u", "b", "s",
       "c", "r", "i", "b", "e", ",", "v", "o", "t", "e", ",", "w", "i", "k", "i", "e",
       "d", "i", "t", ",", "w", "i", "k", "i", "r", "e", "a", "d", ",", "a", "c", "c",
       "o", "u", "n", "t" >>

\* The URL given to the browser (lines 216-223): the pieces of the format
\* string with the four values put between them as they are.
browser_uri(a, st) ==
    << "h", "t", "t", "p", "s", ":", "/", "/", "w", "w", "w", ".", "r", "e", "d", "d",
       "i", "t", ".", "c", "o", "m", "/", "a", "p", "i", "/", "v", "1", "/", "a", "u",
       "t", "h", "o", "r", "i", "z", "e", "?", "c", "l", "i", "e", "n", "t", "_", "i",
       "d", "=" >>
    \o a.id \o
    << "&", "r", "e", "s", "p", "o", "n", "s", "e", "_", "t", "y", "p", "e", "=", "c",
       "o", "d", "e", "&", "s", "t", "a", "t", "e", "=" >>
    \o st \o
    << "&", "r", "e", "d", "i", "r", "e", "c", "t", "_", "u", "r", "i", "=" >>
    \o a.redirect \o
    << "&", "d", "u", "r", "a", "t", "i", "o", "n", "=", "p", "e", "r", "m", "a", "n",
       "e", "n", "t", "&", "s", "c", "o", "p", "e", "=" >>
    \o scopes

Init ==
    /\ pc = "start"
    /\ app \in OauthApps
    /\ port_busy \in BOOLEAN
    /\ result = NoResult
    /\ state = <<>>
    /\ browser = [st |-> "none", uri |-> None, at |-> "none"]
    /\ listener = "none"
    /\ factory = NoFactory
    /\ conns = <<>>
    /\ chan = NoChannel
    /\ sends = <<>>
    /\ code = None
    /\ token_requests = <<>>
    /\ token_response = None
    /\ served = 0
    /\ last = None
    /\ valid_codes = {}
    /\ mismatch_seen = FALSE
    /\ refresh_log = [calls |-> 0, outcome |-> "none"]

Finished(r) == IF r.kind = "Panic" THEN "Panicked" ELSE "Done"

\* OAuth::new, Script arm, lines 160-184: the token request is built and
\* run_request sends it; the caller waits inside run_request for the answer.
AuthorizeScript ==
    /\ pc = "start"
    /\ app.kind = "Script"
    /\ token_requests' = Append(token_requests, ScriptTokenRequest(app))
    /\ pc' = "script_answer"
    /\ UNCHANGED << app, port_busy, result, state, browser, server_vars,
                    token_response, history_vars >>

\* Lines 184-197: run_request returns and the result is built from it.
ScriptAnswer ==
    /\ pc = "script_answer"
    /\ \E rr \in RunRequestResults :
        /\ token_response' = Some([rr |-> rr, now |-> 0])
        /\ result' = NewScript(app, rr)
        /\ pc' = Finished(NewScript(app, rr))
    /\ UNCHANGED << app, port_busy, state, browser, server_vars, token_requests,
                    history_vars >>

\* OAuth::new, InstalledApp arm, lines 205-232: the state string is drawn, the
\* browser thread is spawned with the URL, the one-shot channel is created.
Setup ==
    /\ pc = "start"
    /\ app.kind = "InstalledApp"
    /\ \E s \in StateStrings :
        /\ state' = s
        /\ browser' = [st |-> "spawned", uri |-> Some(browser_uri(app, s)), at |-> "none"]
    /\ chan' = [st |-> "empty"]
    /\ pc' = "bind"
    /\ UNCHANGED << app, port_busy, result, listener, factory, conns, sends, code,
                    token_requests, token_response, history_vars >>

\* A factory given a state string of its own instead of the attempt's.
NewInstalledAppService_own_state(a, st) ==
    [sender |-> Some("code_sender"), state |-> take("z", Len(st)),
     s_resp |-> a.success_response, e_resp |-> a.error_response]

\* The factory moved into the server at bind (lines 236-250).
NewInstalledAppService(a, st) ==
    [sender |-> Some("code_sender"), state |-> st,
     s_resp |-> a.success_response, e_resp |-> a.error_response]

\* A bind whose failure is not returned: the caller goes on to run_until.
Bind_ignores_failure ==
    /\ pc = "bind"
    /\ listener' = IF port_busy THEN "none" ELSE "listening"
    /\ factory' = NewInstalledAppService(app, state)
    /\ pc' = "run_until"
    /\ UNCHANGED << app, port_busy, result, state, browser, conns, chan, sends, code,
                    token_requests, token_response, history_vars >>

\* Http::bind (lines 236-250): fails, and OAuth::new returns the error, when
\* the port is taken. The factory handed to bind (line 237) holds the sender,
\* so a failed bind drops it unsent.
Bind ==
    /\ pc = "bind"
    /\ IF port_busy
       THEN /\ result' = Err("Bind")
            /\ pc' = "Done"
            /\ chan' = [st |-> "canceled"]
            /\ UNCHANGED << listener, factory >>
       ELSE /\ listener' = "listening"
            /\ factory' = NewInstalledAppService(app, state)
            /\ pc' = "run_until"
            /\ UNCHANGED << result, chan >>
    /\ UNCHANGED << app, port_busy, state, browser, conns, sends, code,
                    token_requests, token_response, history_vars >>

\* The spawned thread (lines 226-228): open::that succeeds ...
BrowserOpen ==
    /\ browser.st = "spawned"
    /\ browser' = [browser EXCEPT !.st = "opened"]
    /\ UNCHANGED << pc, app, port_busy, result, state, server_vars,
                    token_requests, token_response, history_vars >>

\* ... or fails, and `expect` panics in that thread.
BrowserFail ==
    /\ browser.st = "spawned"
    /\ browser' = [browser EXCEPT !.st = "panicked"]
    /\ UNCHANGED << pc, app, port_busy, result, state, server_vars,
                    token_requests, token_response, history_vars >>

\* The user consents in the browser opened, and the browser follows the
\* redirect to 127.0.0.1:7878: it is taken by the listener if that is bound
\* by then and refused otherwise.  `at` records where the caller was.
Redirect ==
    /\ browser.st = "opened"
    /\ browser' = [browser EXCEPT
                      !.st = IF listener = "listening" THEN "redirected" ELSE "refused",
                      !.at = pc]
    /\ UNCHANGED << pc, app, port_busy, result, state, server_vars,
                    token_requests, token_response, history_vars >>

\* Every connection closed and its service dropped, a sender still inside it
\* with it.
AllClosed(cs) ==
    [i \in 1..Len(cs) |-> [cs[i] EXCEPT !.open = FALSE, !.svc.code_sender = None]]

\* The channel after the services of these connections are dropped: cancelled
\* when one of them still held the sender and nothing had been sent.
SenderDropped(cs, ch) ==
    IF ch.st = "empty" /\ \E i \in 1..Len(cs) : cs[i].svc.code_sender.some
    THEN [st |-> "canceled"]
    ELSE ch

\* Server::run_until (line 262), a connection is accepted while the shutdown
\* future is pending: new_service is asked for a service; its error ends
\* run_until with that error, which `?` returns from OAuth::new.
Accept ==
    /\ pc = "run_until"
    /\ chan.st = "empty"
    /\ Len(conns) < MaxConns
    /\ LET made == new_service(factory) IN
       /\ factory' = [factory EXCEPT !.sender = made[2]]
       /\ IF made[1].some
          THEN /\ conns' = Append(conns, [open |-> TRUE, svc |-> made[1].v])
               /\ UNCHANGED << pc, result, listener, chan >>
          ELSE /\ conns' = AllClosed(conns)
               /\ chan' = SenderDropped(conns, chan)
               /\ listener' = "closed"
               /\ result' = Err("Hyper")
               /\ pc' = "Done"
    /\ UNCHANGED << app, port_busy, state, browser, sends, code,
                    token_requests, token_response, history_vars >>

\* The parameters of a request: its URI after the first two characters, read
\* as a query (lines 386-388); none when the URI is shorter.
ParamsOf(uri) == form_urlencoded_parse(SubSeq(uri, 3, Len(uri)))

\* Whether a request's parameters make it a redirect for this attempt: no
\* error, the attempt's state, and a code.
IsValidCallback(params, st) ==
    /\ ~contains_key(params, <<"e", "r", "r", "o", "r">>)
    /\ get(params, <<"s", "t", "a", "t", "e">>) = Some(st)
    /\ get(params, <<"c", "o", "d", "e">>).some

\* Whether they carry no error and a state other than the attempt's.
IsMismatch(params, st) ==
    /\ ~contains_key(params, <<"e", "r", "r", "o", "r">>)
    /\ get(params, <<"s", "t", "a", "t", "e">>).some
    /\ get(params, <<"s", "t", "a", "t", "e">>) # Some(st)

\* A request arrives on an open connection and its service's `call` runs
\* (lines 384-431), while run_until is serving or draining.
Request(c, uri) ==
    /\ pc \in {"run_until", "drain"}
    /\ c \in 1..Len(conns)
    /\ conns[c].open
    /\ served < MaxRequests
    /\ LET r == call(conns[c].svc, uri)
           params == ParamsOf(uri)
       IN
       /\ served' = served + 1
       /\ last' = Some([conn |-> c, uri |-> uri, params |-> params, branch |-> r.branch,
                        resp |-> r.resp, sent |-> r.sent])
       /\ valid_codes' = IF IsValidCallback(params, state)
                         THEN valid_codes \cup {get(params, <<"c", "o", "d", "e">>).v}
                         ELSE valid_codes
       /\ mismatch_seen' = (mismatch_seen \/ IsMismatch(params, state))
       /\ IF r.panic
          THEN /\ pc' = "Panicked"
               /\ result' = Panic
               /\ listener' = "closed"
               /\ conns' = AllClosed(conns)
               /\ chan' = SenderDropped(conns, chan)
               /\ UNCHANGED sends
          ELSE /\ conns' = [conns EXCEPT ![c].svc.code_sender = r.code_sender]
               /\ chan' = IF r.sent.some THEN [st |-> "sent", v |-> r.sent.v] ELSE chan
               /\ sends' = IF r.sent.some THEN Append(sends, r.sent.v) ELSE sends
               /\ UNCHANGED << pc, result, listener >>
    /\ UNCHANGED << app, port_busy, state, browser, factory, code,
                    token_requests, token_response, refresh_log >>

\* A connection ends and its service is dropped; a sender still inside it is
\* dropped unsent, which cancels the channel.
CloseConn(c) ==
    /\ pc \in {"run_until", "drain"}
    /\ c \in 1..Len(conns)
    /\ conns[c].open
    /\ conns' = [conns EXCEPT ![c].open = FALSE, ![c].svc.code_sender = None]
    /\ chan' = IF conns[c].svc.code_sender.some /\ chan.st = "empty"
               THEN [st |-> "canceled"] ELSE chan
    /\ UNCHANGED << pc, app, port_busy, result, state, browser, listener, factory,
                    sends, code, token_requests, token_response, history_vars >>

\* A shutdown that also fires, as a timeout would, while the channel is empty.
Shutdown_with_timeout ==
    /\ pc = "run_until"
    /\ code' = IF chan.st = "sent" THEN Some(chan.v) ELSE None
    /\ listener' = "closed"
    /\ pc' = "drain"
    /\ UNCHANGED << app, port_busy, result, state, browser, factory, conns, chan,
                    sends, token_requests, token_response, history_vars >>

\* A shutdown that leaves the listening socket open.
Shutdown_keeps_listener ==
    /\ pc = "run_until"
    /\ chan.st \in {"sent", "canceled"}
    /\ code' = IF chan.st = "sent" THEN Some(chan.v) ELSE None
    /\ pc' = "drain"
    /\ UNCHANGED << app, port_busy, result, state, browser, listener, factory, conns,
                    chan, sends, token_requests, token_response, history_vars >>

\* The shutdown future `finish` (lines 256-259) resolves: the code received is
\* stored; a cancellation stores nothing.  run_until stops accepting.
Shutdown ==
    /\ pc = "run_until"
    /\ chan.st \in {"sent", "canceled"}
    /\ code' = IF chan.st = "sent" THEN Some(chan.v) ELSE None
    /\ listener' = "closed"
    /\ pc' = "drain"
    /\ UNCHANGED << app, port_busy, result, state, browser, factory, conns, chan,
                    sends, token_requests, token_response, history_vars >>

\* run_until returns once the connections are gone or its shutdown timeout
\* passes; lines 264-269 then return an error unless a code was stored.
Drained ==
    /\ pc = "drain"
    /\ conns' = AllClosed(conns)
    /\ IF code.some
       THEN pc' = "exchange" /\ UNCHANGED result
       ELSE pc' = "Done" /\ result' = Err("AuthError")
    /\ UNCHANGED << app, port_busy, state, browser, listener, factory, chan, sends,
                    code, token_requests, token_response, history_vars >>

\* Lines 271-289: the token request for the code is built and run_request
\* sends it; the caller waits inside run_request for the answer, the browser
\* thread going on meanwhile.
ExchangeCode ==
    /\ pc = "exchange"
    /\ token_requests' = Append(token_requests, CodeTokenRequest(app, code.v))
    /\ pc' = "exchange_answer"
    /\ UNCHANGED << app, port_busy, result, state, browser, server_vars,
                    token_response, history_vars >>

\* Lines 289-314: run_request returns, the instant is read and the session
\* built.
ExchangeAnswer ==
    /\ pc = "exchange_answer"
    /\ \E rr \in RunRequestResults, now \in Instants :
        /\ token_response' = Some([rr |-> rr, now |-> now])
        /\ result' = NewInstalledApp(app, rr, now)
        /\ pc' = Finished(NewInstalledApp(app, rr, now))
    /\ UNCHANGED << app, port_busy, state, browser, server_vars, token_requests,
                    history_vars >>

\* The holder of the session returned calls refresh on it (lines 148-150).
Refresh ==
    /\ pc = "Done"
    /\ result.kind = "Ok"
    /\ refresh_log.calls < MaxRefresh
    /\ result' = [result EXCEPT !.session = refresh(result.session).session]
    /\ refresh_log' = [calls |-> refresh_log.calls + 1,
                       outcome |-> refresh(result.session).outcome]
    /\ UNCHANGED << pc, app, port_busy, state, browser, server_vars,
                    token_requests, token_response, served, last, valid_codes,
                    mismatch_seen >>

Next ==
    \/ AuthorizeScript
    \/ ScriptAnswer
    \/ Setup
    \/ Bind
    \/ BrowserOpen
    \/ BrowserFail
    \/ Redirect
    \/ Accept
    \/ \E c \in 1..MaxConns, uri \in Uris : Request(c, uri)
    \/ \E c \in 1..MaxConns : CloseConn(c)
    \/ Shutdown
    \/ Drained
    \/ ExchangeCode
    \/ ExchangeAnswer
    \/ Refresh

Spec == Init /\ [][Next]_vars

\* The steps the program takes by itself: the caller's own code, the spawned
\* thread, and the reactor inside run_until noticing the channel and its
\* shutdown timeout, and run_request returning with the endpoint's answer or
\* with an error.  Connections, requests and closes come from outside.
FairSpec ==
    /\ Spec
    /\ WF_vars(AuthorizeScript)
    /\ WF_vars(ScriptAnswer)
    /\ WF_vars(Setup)
    /\ WF_vars(Bind)
    /\ WF_vars(BrowserOpen \/ BrowserFail)
    /\ WF_vars(Shutdown)
    /\ WF_vars(Drained)
    /\ WF_vars(ExchangeCode)
    /\ WF_vars(ExchangeAnswer)

\* ================================================================ claims
Returned == pc = "Done"

\* C1 (as claimed): a request without `error` whose state is present and
\* differs from the attempt's is answered on the state_mismatch branch, and an
\* attempt in which such a request was serviced returns a failure.
C1_StateMismatchFails ==
    /\ (last.some /\ IsMismatch(last.v.params, state)) => last.v.branch = "state_mismatch"
    /\ (mismatch_seen /\ Returned) => result.kind = "Err"

\* C2: a serviced request that carries an `error` parameter takes the
\* remote_error branch and sends no code, whatever its state and code are.
C2_ErrorRejectedFirst ==
    (last.some /\ contains_key(last.v.params, <<"e", "r", "r", "o", "r">>))
        => (last.v.branch = "remote_error" /\ last.v.sent = None)

\* C2 witness: the request rejected for its `error` also carried the attempt's
\* state and a code, and the service still held the sender.
C2_Witness ==
    /\ last.some
    /\ contains_key(last.v.params, <<"e", "r", "r", "o", "r">>)
    /\ get(last.v.params, <<"s", "t", "a", "t", "e">>) = Some(state)
    /\ get(last.v.params, <<"c", "o", "d", "e">>).some
    /\ last.v.branch = "remote_error"
    /\ conns[last.v.conn].svc.code_sender.some

\* C3: in an InstalledApp attempt at most one token request is made, it is an
\* authorization_code request, and its code is the code of a serviced request
\* that had no `error` and the attempt's state.
C3_ExchangedCodeIsValid ==
    app.kind = "InstalledApp" =>
        /\ Len(token_requests) <= 1
        /\ \A i \in 1..Len(token_requests) :
            /\ token_requests[i].grant_type = "authorization_code"
            /\ token_requests[i].code \in valid_codes
        /\ (valid_codes = {} => token_requests = <<>>)

\* C3 witness: a code was exchanged in an attempt that also rejected a request.
C3_Witness ==
    /\ app.kind = "InstalledApp"
    /\ Len(token_requests) = 1
    /\ served = 2
    /\ mismatch_seen

\* C4 (as claimed): the server services at most one request, and once it has
\* serviced one it is no longer listening.
C4_SingleUse ==
    /\ served <= 1
    /\ served >= 1 => listener # "listening"

\* C5: at most one value is ever sent on the one-shot channel.
C5_SentAtMostOnce == Len(sends) <= 1

\* C5 witness: a second matching request was serviced after the code had been
\* sent, and sent nothing.
C5_Witness ==
    /\ Len(sends) = 1
    /\ served = 2
    /\ last.some
    /\ last.v.branch = "succeeded"
    /\ last.v.sent = None

\* The caller is inside run_until, waiting for the channel or for the
\* connections to finish.
Waiting == pc \in {"run_until", "drain"}

\* C6 (as claimed): once a request has been serviced, whatever branch it took,
\* the caller's wait eventually ends.
C6_CallerReleased == (last.some /\ last.v.branch # "panic") ~> ~Waiting

\* The JSON object the token endpoint answered with, when the request succeeded.
Answered == token_response.some /\ token_response.v.rr.ok
Json == token_response.v.rr.json

\* C7 (as claimed): a Script attempt whose response contains access_token ends
\* with a Script session holding that token and the credentials supplied.
C7_ScriptSession ==
    (app.kind = "Script" /\ Answered /\ "access_token" \in DOMAIN Json) =>
        /\ Returned
        /\ result.kind = "Ok"
        /\ result.session.kind = "Script"
        /\ as_str(Json["access_token"]) = Some(result.session.token)
        /\ result.session.id = app.id
        /\ result.session.secret = app.secret
        /\ result.session.username = app.username
        /\ result.session.password = app.password

\* C8: a Script attempt whose response lacks access_token returns the
\* authorization error: no session, no panic.
C8_MissingTokenIsError ==
    (app.kind = "Script" /\ Answered /\ "access_token" \notin DOMAIN Json) =>
        (Returned /\ result = Err("AuthError"))

\* C8 witness: such a response was received, with other fields present.
C8_Witness ==
    /\ app.kind = "Script"
    /\ Answered
    /\ "access_token" \notin DOMAIN Json
    /\ DOMAIN Json # {}
    /\ result.kind = "Err"

\* C9: an InstalledApp attempt whose token response lacks one of the four
\* fields returns the authorization error, and a session is built only from a
\* response that has all four.
C9_IncompleteResponseIsError ==
    (app.kind = "InstalledApp" /\ Answered) =>
        /\ ~(Field \subseteq DOMAIN Json) => (Returned /\ result = Err("AuthError"))
        /\ result.kind = "Ok" => Field \subseteq DOMAIN Json

\* C9 witness: a response lacking exactly one field was rejected.
C9_Witness ==
    /\ app.kind = "InstalledApp"
    /\ Answered
    /\ Cardinality(DOMAIN Json) = 3
    /\ result = Err("AuthError")

\* C10 (as claimed): the session built from a response with access_token T,
\* refresh_token R and expires_in n holds T, Some(R) and the instant read plus n.
C10_SessionFromResponse ==
    (app.kind = "InstalledApp" /\ Answered /\ result.kind = "Ok") =>
        /\ as_str(Json["access_token"]) = Some(result.session.token)
        /\ as_str(Json["refresh_token"]) = result.session.refresh_token
        /\ Json["expires_in"].t = "number"
        /\ ~Json["expires_in"].neg
        /\ result.session.expire_instant =
               Some(AddDigits(Decimal(token_response.v.now), Json["expires_in"].digits, 0))

\* C11 (as claimed): every call of refresh on a Script session returns
\* successfully and leaves the session as OAuth::new returned it.
C11_ScriptRefreshSucceeds ==
    (result.kind = "Ok" /\ result.session.kind = "Script" /\ refresh_log.calls > 0) =>
        /\ refresh_log.outcome = "Ok"
        /\ result = NewScript(app, token_response.v.rr)

\* C12: whenever an InstalledApp call has returned, the listening socket is
\* closed; it was never opened only when the bind itself failed.
C12_PortReleased ==
    (app.kind = "InstalledApp" /\ Returned) =>
        /\ listener # "listening"
        /\ listener = "none" => result = Err("Bind")

\* C12 witness: the call returned an error after the wait was cancelled, with
\* the socket it had bound closed.
C12_Witness ==
    /\ app.kind = "InstalledApp"
    /\ Returned
    /\ result = Err("AuthError")
    /\ chan.st = "canceled"
    /\ listener = "closed"

\* C13: when the port is taken, an InstalledApp call returns the bind error
\* straight from the bind: it never waits in run_until, services nothing,
\* makes no token request and builds no session; nothing is sent on the
\* channel, whose sender goes away with the failed bind.
C13_BindFailureReturns ==
    (app.kind = "InstalledApp" /\ port_busy) =>
        /\ pc \in {"start", "bind", "Done"}
        /\ pc = "Done" => result = Err("Bind")
        /\ pc # "Done" => result = NoResult
        /\ token_requests = <<>>
        /\ conns = <<>>
        /\ sends = <<>>
        /\ code = None
        /\ chan.st = (IF pc = "start" THEN "none"
                      ELSE IF pc = "bind" THEN "empty" ELSE "canceled")

\* C13 witness: the call has returned from a failed bind.
C13_Witness ==
    /\ app.kind = "InstalledApp"
    /\ port_busy
    /\ Returned
    /\ result = Err("Bind")

\* C14 (as claimed): once the browser launch has failed, the call returns a
\* failure: the caller does not stay blocked.
C14_LaunchFailureSurfaced ==
    (browser.st = "panicked") ~> (Returned /\ result.kind = "Err")

\* C15 (as claimed): every session returned, of either kind, holds a
\* non-empty token.
C15_SessionHasToken ==
    result.kind = "Ok" => Len(result.session.token) > 0

\* C16: an InstalledApp session, as returned and after any refresh calls,
\* has a refresh token whenever it has an expiry instant.
C16_ExpiryImpliesRefreshToken ==
    (result.kind = "Ok" /\ result.session.kind = "InstalledApp") =>
        (result.session.expire_instant.some => result.session.refresh_token.some)

\* C16 witness: an InstalledApp session with an expiry instant on which
\* refresh has been called.
C16_Witness ==
    /\ result.kind = "Ok"
    /\ result.session.kind = "InstalledApp"
    /\ result.session.expire_instant.some
    /\ refresh_log.calls > 0

\* C17 (as claimed): whatever the order of the browser thread and the bind,
\* the redirect the browser follows finds the listener bound: it is never
\* refused because the caller had not bound yet.
C17_RedirectFindsListener ==
    ~(browser.st = "refused" /\ browser.at = "bind" /\ ~port_busy)

\* The value a parameter has for the site that is sent the URL: the text
\* after the first "?" read as a query.
UrlParam(url, k) ==
    LET i == CHOOSE j \in 1..Len(url) : url[j] = "?" /\ \A m \in 1..(j - 1) : url[m] # "?"
    IN  get(form_urlencoded_parse(SubSeq(url, i + 1, Len(url))), k)

\* C18: once the browser thread exists the state string has 16 characters,
\* the URL given to the browser is the one built with it, and the factory and
\* every service made from it compare requests against that same string.
C18_OneStatePerAttempt ==
    browser.st # "none" =>
        /\ Len(state) = StateLen
        /\ browser.uri = Some(browser_uri(app, state))
        /\ "state" \in DOMAIN factory => factory.state = state
        /\ \A i \in 1..Len(conns) : conns[i].svc.state = state

\* C18 witness: a request carrying the state the URL has as its `state`
\* parameter was accepted by the service after the browser followed the
\* redirect.
C18_Witness ==
    /\ browser.st = "redirected"
    /\ last.some
    /\ last.v.branch = "succeeded"
    /\ get(last.v.params, <<"s", "t", "a", "t", "e">>)
           = UrlParam(browser.uri.v, <<"s", "t", "a", "t", "e">>)
    /\ UrlParam(browser.uri.v, <<"s", "t", "a", "t", "e">>) = Some(state)

\* The bind succeeded: the caller is past it and did not return its error.
Bound == app.kind = "InstalledApp" /\ ~port_busy /\ pc \notin {"start", "bind"}

\* C19 (as claimed): after a successful bind, as long as no request has been
\* serviced the call has not ended.
C19_NoRequestNoReturn ==
    (Bound /\ served = 0) => (pc \in {"run_until", "drain"} /\ result = NoResult)

\* C19 (amended): after a successful bind, as long as no connection has been
\* accepted the caller is blocked in run_until, with nothing returned.
C19_NoConnectionNoReturn ==
    (Bound /\ conns = <<>>) =>
        (pc = "run_until" /\ result = NoResult /\ chan.st = "empty")

\* C19 witness: the browser was opened and nothing ever connected; the caller
\* is waiting.
C19_Witness ==
    /\ Bound
    /\ conns = <<>>
    /\ browser.st \in {"opened", "refused"}
    /\ pc = "run_until"

\* C20 (as claimed): a request with an `error` parameter is answered with the
\* configured error page, or else with the body "Authorization failed".
C20_ErrorResponseBody ==
    (last.some /\ contains_key(last.v.params, <<"e", "r", "r", "o", "r">>))
        => last.v.resp = Some(IF app.error_response.some THEN app.error_response.v
                              ELSE Response("Authorization failed"))

\* C21 (as claimed): call is total: every request serviced, whatever its URI,
\* is answered with a response and the handler does not abort; a request with
\* the attempt's state and no code, or with a URI shorter than two characters,
\* is among them and sends no code.
C21_CallIsTotal ==
    last.some => (last.v.branch # "panic" /\ last.v.resp.some)

\* C22: the sender goes into the service of the first connection accepted and
\* new_service fails for every later one: no later connection gets a service,
\* a code is only ever sent by a request on the first connection, and an
\* attempt ended by a later connection has delivered and exchanged nothing.
C22_OnlyFirstConnectionDelivers ==
    /\ Len(conns) <= 1
    /\ conns # <<>> => (factory.sender = None /\ new_service(factory)[1] = None)
    /\ (last.some /\ last.v.sent.some) => last.v.conn = 1
    /\ result = Err("Hyper") => (sends = <<>> /\ code = None /\ token_requests = <<>>)

\* C22 witness: a second connection arrived after the first had been given
\* the sender and had serviced a request; new_service failed for it.
C22_Witness ==
    /\ Len(conns) = 1
    /\ served >= 1
    /\ factory.sender = None
    /\ result = Err("Hyper")

\* C23 (as claimed): once the sender owned by a connection handler has been
\* dropped with nothing sent (the channel is cancelled), whether the
\* connection went away or the handler failed, no code is stored, no token
\* request is made and no session is built, and the call returns the
\* authorization error.
C23_DroppedSenderIsAuthError ==
    /\ []((chan.st = "canceled" /\ conns # <<>>) =>
            /\ sends = <<>>
            /\ code = None
            /\ token_requests = <<>>
            /\ result \in {NoResult, Err("AuthError")})
    /\ (chan.st = "canceled" /\ conns # <<>>)
           ~> (pc = "Done" /\ result = Err("AuthError"))

\* The token response has the fields the arm requires: access_token for a
\* Script attempt, all four for an InstalledApp attempt.
RequiredFieldsPresent ==
    /\ Answered
    /\ IF app.kind = "Script" THEN "access_token" \in DOMAIN Json
       ELSE Field \subseteq DOMAIN Json

\* C24 (as claimed): whenever the token response has the required fields the
\* call returns a value, a session or an error, and does not abort, whatever
\* the values of access_token and expires_in are and whatever instant is read.
C24_MalformedFieldIsResult ==
    RequiredFieldsPresent => (pc = "Done" /\ result.kind \in {"Ok", "Err"})

====
